---- MODULE Spec2Model ----
(***************************************************************************)
(* A state-machine model of the agente_koper RAG application:              *)
(*   - the REST API process (backend_api/app.py) over the vector store     *)
(*     manager (backend/vector_store.py),                                  *)
(*   - the document processor (backend/processing.py),                     *)
(*   - the prompt assembly of the question-answering service               *)
(*     (backend/qa.py).                                                    *)
(* External services (Chroma, the embedding and chat backends, the file    *)
(* system) are modelled by their observable outcome: a call either         *)
(* succeeds or raises, chosen nondeterministically.                        *)
(***************************************************************************)
EXTENDS Integers, Sequences, FiniteSets, TLC

VARIABLES
    phase,         \* "boot": startup_event has not run yet; "serving": it has
    apiKey,        \* Config.OPENAI_API_KEY is set (fixed for a process environment)
    vector_store,  \* app.py's global handle: "None" or the identity of a Chroma object
    disk,          \* the persisted directory Config.PERSIST_DIR
    tmpLeft,       \* temp files that a call which has ended left behind
    upload,        \* the /upload request suspended at `await file.read()`, if any
    resp,          \* the last HTTP response the API sent, or what startup_event
                   \* did when the process has sent none since it started
    fresh,         \* bookkeeping: successful adds since the index last held no documents
    procPc,        \* process_multiple_files: "loop", "returned", then "stats"
    files,         \* process_multiple_files: the files the loop has taken from its input
    all_chunks,    \* process_multiple_files: the accumulator
    procRaised,    \* process_multiple_files: an exception left the function
    docStats,      \* get_document_stats(all_chunks), computed by the caller on return
    split,         \* process_txt_file: the text splitter's merge loop
    qaIn,          \* ask_question: its arguments (query, chat_history, retrieved docs)
    qaPc,          \* ask_question: position
    messages,      \* ask_question: the message list handed to ChatPromptTemplate
    uiStore,       \* the UIs' backend holds an index handle
    msgsE,         \* embedded UI: st.session_state["messages"]
    msgsR,         \* REST-client UI: st.session_state["messages"]
    turn,          \* the question turn in progress, or the last one that ended
    sessions,      \* embedded UI: st.session_state of each browser session
    loop,          \* the API's event loop: the handler it is running, and where
    reqs           \* the HTTP requests of the event-loop view of the API

apiVars  == <<phase, apiKey, vector_store, disk, upload, resp, fresh>>
procVars == <<procPc, files, all_chunks, procRaised, docStats, split>>
qaVars   == <<qaIn, qaPc, messages>>
uiVars   == <<uiStore, msgsE, msgsR, turn, sessions>>
loopVars == <<loop, reqs>>
vars     == <<apiVars, tmpLeft, procVars, qaVars, uiVars, loopVars>>

(***************************************************************************)
(* Bounds of the model.                                                    *)
(***************************************************************************)
MaxFiles == 2
MaxDocs == 2
MaxTmp == 1
MaxHist == 3
MaxMsgs == 4
MaxReqs == 3

ChunkLens == {1, 2}

\* Sequences over S of length at most n.
RECURSIVE SeqsUpTo(_, _)
SeqsUpTo(S, n) ==
    IF n = 0 THEN {<<>>}
    ELSE LET shorter == SeqsUpTo(S, n - 1)
         IN  shorter \cup {Append(s, x) : s \in {t \in shorter : Len(t) = n - 1}, x \in S}

(***************************************************************************)
(* File names, as sequences of characters.                                 *)
(***************************************************************************)
Name_a_pdf      == <<"a", ".", "p", "d", "f">>
Name_a_PDF      == <<"a", ".", "P", "D", "F">>
Name_a_txt      == <<"a", ".", "t", "x", "t">>
Name_pdf        == <<"p", "d", "f">>
Name_a_b_TXT    == <<"a", ".", "b", ".", "T", "X", "T">>
Name_a_md       == <<"a", ".", "m", "d">>
Name_a_markdown == <<"a", ".", "m", "a", "r", "k", "d", "o", "w", "n">>
Name_a_doc      == <<"a", ".", "d", "o", "c">>
Name_pdf_a      == <<"p", "d", "f", ".", "a">>

\* str.endswith
EndsWith(s, suffix) ==
    /\ Len(s) >= Len(suffix)
    /\ SubSeq(s, Len(s) - Len(suffix) + 1, Len(s)) = suffix

\* str.lower, character by character
LowerChar(c) ==
    CASE c = "P" -> "p" [] c = "D" -> "d" [] c = "F" -> "f"
      [] c = "T" -> "t" [] c = "X" -> "x" [] c = "M" -> "m"
      [] OTHER -> c

Lower(s) == [i \in 1..Len(s) |-> LowerChar(s[i])]

\* s.split(".")[-1]: what follows the last ".", the whole of s when it has none
LastDotPart(s) ==
    LET dots == {i \in 1..Len(s) : s[i] = "."}
    IN  IF dots = {} THEN s
        ELSE LET last == CHOOSE i \in dots : \A j \in dots : j <= i
             IN  SubSeq(s, last + 1, Len(s))

Ext_pdf      == <<"p", "d", "f">>
Ext_txt      == <<"t", "x", "t">>
Ext_md       == <<"m", "d">>
Ext_markdown == <<"m", "a", "r", "k", "d", "o", "w", "n">>
DotPdf       == <<".", "p", "d", "f">>

(***************************************************************************)
(* backend/processing.py                                                   *)
(***************************************************************************)
\* What can go wrong while one file is processed: nothing, reading the upload,
\* writing the temp file, the loader, the splitter.
Fails == {"none", "read", "write", "load", "split"}

\* process_pdf_file: the temp file is created (delete=False) and written inside
\* the `with`, before the try/finally that removes it.
process_pdf_file(f) ==
    IF f.fail \in {"read", "write"}
    THEN [raised |-> TRUE, chunks |-> <<>>, tmpLeft |-> 1]
    ELSE IF f.fail \in {"load", "split"}
    THEN [raised |-> TRUE, chunks |-> <<>>, tmpLeft |-> 0]
    ELSE [raised |-> FALSE, chunks |-> f.chunks, tmpLeft |-> 0]

\* process_txt_file / process_markdown_file: read, decode, split; no temp file.
process_txt_file(f) ==
    IF f.fail # "none"
    THEN [raised |-> TRUE, chunks |-> <<>>, tmpLeft |-> 0]
    ELSE [raised |-> FALSE, chunks |-> f.chunks, tmpLeft |-> 0]

process_markdown_file(f) ==
    IF f.fail # "none"
    THEN [raised |-> TRUE, chunks |-> <<>>, tmpLeft |-> 0]
    ELSE [raised |-> FALSE, chunks |-> f.chunks, tmpLeft |-> 0]

\* sum(len(doc.page_content) for doc in chunks); a chunk is modelled by its length
RECURSIVE SumLen(_)
SumLen(chunks) ==
    IF chunks = <<>> THEN 0 ELSE Head(chunks) + SumLen(Tail(chunks))

\* Faulty variant: the average is rounded up
get_document_stats_RoundsUp(chunks) ==
    LET total_chars == SumLen(chunks)
    IN  [total_chunks     |-> Len(chunks),
         total_characters |-> total_chars,
         avg_chunk_size   |-> IF chunks # <<>>
                              THEN (total_chars + Len(chunks) - 1) \div Len(chunks)
                              ELSE 0]

get_document_stats(chunks) ==
    LET total_chars == SumLen(chunks)
    IN  [total_chunks     |-> Len(chunks),
         total_characters |-> total_chars,
         avg_chunk_size   |-> IF chunks # <<>> THEN total_chars \div Len(chunks) ELSE 0]

(***************************************************************************)
(* process_txt_file's splitter: RecursiveCharacterTextSplitter(chunk_size = *)
(* Config.CHUNK_SIZE, chunk_overlap = Config.CHUNK_OVERLAP, separators =    *)
(* ["\n\n", "\n", ". ", " ", ""]) on one document.  A text is given by the  *)
(* lengths of its paragraphs, which are joined by "\n\n" and hold no        *)
(* separator themselves; a chunk is given by its length.                   *)
(***************************************************************************)
CHUNK_SIZE    == 1000
CHUNK_OVERLAP == 400

\* 2400 characters: one unbroken run, four paragraphs, three paragraphs
Texts2400 == {<<2400>>, <<600, 598, 598, 598>>, <<800, 798, 798>>}

\* The splits of the first separator the text holds.  With "\n\n" present the
\* text is cut before every separator, which stays at the head of its split;
\* with no separator but "" left, the text is cut into its characters.
NumSplits(text) == IF Len(text) = 1 THEN text[1] ELSE Len(text)

SplitAt(text, i) ==
    IF Len(text) = 1 THEN [len |-> 1, lead |-> 0]
    ELSE IF i = 1 THEN [len |-> text[1], lead |-> 0]
    ELSE [len |-> text[i] + 2, lead |-> 2]

NoSplit == [text |-> <<>>, i |-> 1, lo |-> 1, total |-> 0, docs |-> <<>>, pc |-> "done"]

\* Faulty variant: the whole current chunk is dropped, nothing overlaps
KeepPopping_NoOverlap(total, d) == total > 0

\* _merge_splits' inner `while`: splits are dropped from the head of the
\* current chunk while it is larger than the overlap, or would still be too
\* long with the next split
KeepPopping(total, d) ==
    \/ total > CHUNK_OVERLAP
    \/ (total + d > CHUNK_SIZE /\ total > 0)

\* _join_docs: the splits lo..i-1 joined and stripped; None for an empty text
JoinDocs_Len == split.total - SplitAt(split.text, split.lo).lead

\* One pass of _merge_splits' `for`: the next split is appended to the current
\* chunk, after the current chunk has been emitted when the split does not fit
SplitterTake ==
    /\ split.pc = "loop"
    /\ split.i <= NumSplits(split.text)
    /\ LET d == SplitAt(split.text, split.i).len
       IN  IF split.total + d > CHUNK_SIZE /\ split.lo < split.i
           THEN split' = [split EXCEPT !.pc = "pop",
                                       !.docs = IF JoinDocs_Len > 0
                                                THEN Append(@, JoinDocs_Len) ELSE @]
           ELSE split' = [split EXCEPT !.i = @ + 1, !.total = @ + d]
    /\ UNCHANGED <<procPc, files, all_chunks, procRaised, docStats, tmpLeft, apiVars, qaVars,
                   uiVars, loopVars>>

\* One pass of the inner `while`, or its exit: the split is appended
SplitterPop ==
    /\ split.pc = "pop"
    /\ LET d == SplitAt(split.text, split.i).len
       IN  IF split.lo < split.i /\ KeepPopping(split.total, d)
           THEN split' = [split EXCEPT !.total = @ - SplitAt(split.text, split.lo).len,
                                       !.lo = @ + 1]
           ELSE split' = [split EXCEPT !.i = @ + 1, !.total = @ + d, !.pc = "loop"]
    /\ UNCHANGED <<procPc, files, all_chunks, procRaised, docStats, tmpLeft, apiVars, qaVars,
                   uiVars, loopVars>>

\* After the `for`: the last chunk is emitted, process_txt_file returns the
\* chunks, and the caller takes get_document_stats of them
SplitterFinish ==
    /\ split.pc = "loop"
    /\ split.i > NumSplits(split.text)
    /\ LET docs == IF split.lo < split.i /\ JoinDocs_Len > 0
                   THEN Append(split.docs, JoinDocs_Len) ELSE split.docs
       IN  /\ split' = [split EXCEPT !.docs = docs, !.pc = "done"]
           /\ all_chunks' = docs
           /\ docStats' = get_document_stats(docs)
    /\ UNCHANGED <<procPc, files, procRaised, tmpLeft, apiVars, qaVars, uiVars, loopVars>>

\* The files process_multiple_files is driven with: a name and what processing
\* the file does (the chunks it yields, or where it raises).
ProcChunkLists == {<<>>, <<1>>, <<1, 2>>}
PdfNames       == {Name_a_pdf, Name_a_PDF, Name_pdf}
TextNames      == {Name_a_b_TXT, Name_a_md, Name_a_markdown}
OtherNames     == {Name_a_doc, Name_pdf_a}

ProcFiles ==
    {[name |-> n, fail |-> "none", chunks |-> c] :
        n \in PdfNames \cup TextNames, c \in ProcChunkLists}
    \cup {[name |-> n, fail |-> f, chunks |-> <<>>] : n \in PdfNames, f \in Fails \ {"none"}}
    \cup {[name |-> n, fail |-> "read", chunks |-> <<>>] : n \in TextNames}
    \cup {[name |-> n, fail |-> "none", chunks |-> <<1>>] : n \in OtherNames}

\* Faulty variant: the extension is compared without lower-casing it
DispatchFile_CaseSensitive(f) ==
    LET file_extension == LastDotPart(f.name)
    IN  IF file_extension = Ext_pdf THEN process_pdf_file(f)
        ELSE IF file_extension = Ext_txt THEN process_txt_file(f)
        ELSE IF file_extension \in {Ext_md, Ext_markdown} THEN process_markdown_file(f)
        ELSE [raised |-> FALSE, chunks |-> <<>>, tmpLeft |-> 0]

\* Lines 135-153: the dispatch on file.name.split(".")[-1].lower() and the
\* try/except around the processing of one file.
DispatchFile(f) ==
    LET file_extension == Lower(LastDotPart(f.name))
    IN  IF file_extension = Ext_pdf THEN process_pdf_file(f)
        ELSE IF file_extension = Ext_txt THEN process_txt_file(f)
        ELSE IF file_extension \in {Ext_md, Ext_markdown} THEN process_markdown_file(f)
        ELSE [raised |-> FALSE, chunks |-> <<>>, tmpLeft |-> 0]

\* One iteration of process_multiple_files' loop
ProcessFile ==
    /\ procPc = "loop"
    /\ Len(files) < MaxFiles
    /\ \E f \in ProcFiles :
         LET r == DispatchFile(f)
         IN  /\ tmpLeft + r.tmpLeft <= MaxTmp
             /\ files' = Append(files, f)
             /\ tmpLeft' = tmpLeft + r.tmpLeft
             /\ all_chunks' = IF r.raised THEN all_chunks ELSE all_chunks \o r.chunks
    /\ UNCHANGED <<procPc, procRaised, docStats, split, apiVars, qaVars, uiVars, loopVars>>

\* The input list is exhausted: return all_chunks
ProcessReturn ==
    /\ procPc = "loop"
    /\ procPc' = "returned"
    /\ UNCHANGED <<files, all_chunks, procRaised, docStats, split, tmpLeft, apiVars, qaVars,
                   uiVars, loopVars>>

\* The caller's stats = get_document_stats(chunks)
DocumentStats ==
    /\ procPc = "returned"
    /\ procPc' = "stats"
    /\ docStats' = get_document_stats(all_chunks)
    /\ UNCHANGED <<files, all_chunks, procRaised, split, tmpLeft, apiVars, qaVars, uiVars, loopVars>>

(***************************************************************************)
(* backend/qa.py                                                           *)
(***************************************************************************)
\* Strings are sequences of tokens.  DEFAULT_SYSTEM_PROMPT holds the
\* placeholder {context} between its opening lines and its rules.
DEFAULT_SYSTEM_PROMPT == <<"intro", "{context}", "rules">>

NoHistory == [isNone |-> TRUE, items |-> <<>>]

\* "\n\n".join(doc.page_content for doc in docs)
RECURSIVE JoinDocs(_)
JoinDocs(docs) ==
    IF docs = <<>> THEN <<>>
    ELSE IF Len(docs) = 1 THEN <<docs[1]>>
    ELSE <<docs[1], "\n\n">> \o JoinDocs(Tail(docs))

\* str.replace(old, new), token-wise
RECURSIVE Replace(_, _, _)
Replace(s, old, new) ==
    IF s = <<>> THEN <<>>
    ELSE (IF Head(s) = old THEN new ELSE <<Head(s)>>) \o Replace(Tail(s), old, new)

\* Faulty variant: each history message is inserted right after the system message
RECURSIVE AppendHistory_InsertsFirst(_, _)
AppendHistory_InsertsFirst(msgs, history) ==
    IF history = <<>> THEN msgs
    ELSE LET message == Head(history)
             next == IF message.role = "user"
                     THEN <<Head(msgs), [role |-> "human", content |-> message.content]>>
                          \o Tail(msgs)
                     ELSE IF message.role = "ai"
                     THEN <<Head(msgs), [role |-> "assistant", content |-> message.content]>>
                          \o Tail(msgs)
                     ELSE msgs
         IN  AppendHistory_InsertsFirst(next, Tail(history))

\* Lines 111-118: the loop over chat_history, appending to `msgs`
RECURSIVE AppendHistory(_, _)
AppendHistory(msgs, history) ==
    IF history = <<>> THEN msgs
    ELSE LET message == Head(history)
             next == IF message.role = "user"
                     THEN Append(msgs, [role |-> "human", content |-> message.content])
                     ELSE IF message.role = "ai"
                     THEN Append(msgs, [role |-> "assistant", content |-> message.content])
                     ELSE msgs
         IN  AppendHistory(next, Tail(history))

\* Lines 104-121 of ask_question: the message list
BuildMessages(system_prompt, docs, chat_history, query) ==
    LET context == JoinDocs(docs)
        first   == <<[role |-> "system",
                      content |-> Replace(system_prompt, "{context}", context)]>>
        withHistory == IF ~chat_history.isNone /\ chat_history.items # <<>>
                       THEN AppendHistory(first, chat_history.items)
                       ELSE first
    IN  Append(withHistory, [role |-> "human", content |-> query])

HistRoles    == {"user", "ai", "system"}
HistContents == {<<"A">>, <<"B">>}
HistMsgs     == [role : HistRoles, content : HistContents]
Histories    == {NoHistory} \cup
                {[isNone |-> FALSE, items |-> h] : h \in SeqsUpTo(HistMsgs, MaxHist)}
Queries      == {<<"C">>, <<"A">>}
RetrievedDocs == {<<>>, <<"d1">>, <<"d1", "d2">>}

\* retriever.invoke(query): returns the documents, or raises
QARetrieve ==
    /\ qaPc = "start"
    /\ \E ok \in BOOLEAN : qaPc' = IF ok THEN "retrieved" ELSE "raised"
    /\ UNCHANGED <<qaIn, messages, apiVars, tmpLeft, procVars, uiVars, loopVars>>

\* Lines 104-124: context, messages, prompt
QABuild ==
    /\ qaPc = "retrieved"
    /\ messages' = BuildMessages(DEFAULT_SYSTEM_PROMPT, qaIn.docs, qaIn.chat_history,
                                 qaIn.query)
    /\ qaPc' = "built"
    /\ UNCHANGED <<qaIn, apiVars, tmpLeft, procVars, uiVars, loopVars>>

\* chain.invoke({}): the one call of the chat model, which answers or raises
QAInvoke ==
    /\ qaPc = "built"
    /\ \E ok \in BOOLEAN : qaPc' = IF ok THEN "answered" ELSE "raised"
    /\ UNCHANGED <<qaIn, messages, apiVars, tmpLeft, procVars, uiVars, loopVars>>

(***************************************************************************)
(* backend/vector_store.py                                                 *)
(***************************************************************************)
\* The persisted directory: absent, an empty directory, or a Chroma index
\* holding the documents `docs`.
DiskAbsent   == [state |-> "absent", docs |-> <<>>]
DiskEmptyDir == [state |-> "emptydir", docs |-> <<>>]
DiskIndex(d) == [state |-> "index", docs |-> d]

\* A Chroma object other than h (object identity; at most one is live at a time)
NewHandle(h) == IF h = "h1" THEN "h2" ELSE "h1"

\* Faulty variant: the index is never opened
load_existing_vector_store_NeverOpens(listOk, openOk) ==
    IF disk.state = "absent"
    THEN [raised |-> FALSE, handle |-> "None", outcome |-> "absent"]
    ELSE IF ~listOk
    THEN [raised |-> TRUE, handle |-> "None", outcome |-> "list_raised"]
    ELSE [raised |-> FALSE, handle |-> "None", outcome |-> "emptydir"]

\* load_existing_vector_store.  listOk: os.listdir does not raise; openOk:
\* Chroma(...) does not raise.  os.path.exists and os.listdir are evaluated in
\* the `if`, before the try block: only the opening is guarded.
load_existing_vector_store(listOk, openOk) ==
    IF disk.state = "absent"
    THEN [raised |-> FALSE, handle |-> "None", outcome |-> "absent"]
    ELSE IF ~listOk
    THEN [raised |-> TRUE, handle |-> "None", outcome |-> "list_raised"]
    ELSE IF disk.state = "emptydir"
    THEN [raised |-> FALSE, handle |-> "None", outcome |-> "emptydir"]
    ELSE IF openOk
    THEN [raised |-> FALSE, handle |-> NewHandle(vector_store), outcome |-> "opened"]
    ELSE [raised |-> FALSE, handle |-> "None", outcome |-> "open_raised"]

\* Faulty variant: the new index embeds all chunks but the last
create_vector_store_DropsLast(chunks, ok) ==
    IF ~apiKey
    THEN [raised |-> TRUE, handle |-> "None", disk |-> disk]
    ELSE IF ok
    THEN [raised |-> FALSE, handle |-> NewHandle(vector_store),
          disk |-> DiskIndex(disk.docs \o SubSeq(chunks, 1, Len(chunks) - 1))]
    ELSE [raised |-> TRUE, handle |-> "None", disk |-> DiskIndex(disk.docs)]

\* create_vector_store: Chroma.from_documents opens (or creates) the collection
\* at the persist directory and adds the chunks to it.  ok: nothing raises.
\* When embedding raises, the directory has already been created.
create_vector_store(chunks, ok) ==
    IF ~apiKey
    THEN [raised |-> TRUE, handle |-> "None", disk |-> disk]
    ELSE IF ok
    THEN [raised |-> FALSE, handle |-> NewHandle(vector_store),
          disk |-> DiskIndex(disk.docs \o chunks)]
    ELSE [raised |-> TRUE, handle |-> "None", disk |-> DiskIndex(disk.docs)]

\* Faulty variant: a new index object is created even when a handle is given
add_to_vector_store_AlwaysCreates(chunks, vs, ok) ==
    create_vector_store(chunks, ok)

\* Faulty variant: an add to a given handle replaces what the index held
add_to_vector_store_Replaces(chunks, vs, ok) ==
    IF vs # "None"
    THEN IF ok
         THEN [raised |-> FALSE, handle |-> vs, disk |-> DiskIndex(chunks)]
         ELSE [raised |-> TRUE, handle |-> "None", disk |-> disk]
    ELSE create_vector_store(chunks, ok)

\* add_to_vector_store(chunks, vs)
add_to_vector_store(chunks, vs, ok) ==
    IF vs # "None"
    THEN IF ok
         THEN [raised |-> FALSE, handle |-> vs, disk |-> DiskIndex(disk.docs \o chunks)]
         ELSE [raised |-> TRUE, handle |-> "None", disk |-> disk]
    ELSE create_vector_store(chunks, ok)

\* Faulty variant: the directory is removed only when it holds no documents
delete_vector_store_KeepsDocs(ok, partial) ==
    IF disk.state # "absent" /\ disk.docs = <<>>
    THEN IF ok THEN [raised |-> FALSE, disk |-> DiskAbsent]
         ELSE [raised |-> TRUE, disk |-> IF partial THEN DiskEmptyDir ELSE disk]
    ELSE [raised |-> FALSE, disk |-> disk]

\* Faulty variant: a failing rmtree has removed the directory all the same
delete_vector_store_RaisesAfterRemoving(ok, partial) ==
    IF disk.state # "absent"
    THEN IF ok THEN [raised |-> FALSE, disk |-> DiskAbsent]
         ELSE [raised |-> TRUE, disk |-> DiskAbsent]
    ELSE [raised |-> FALSE, disk |-> disk]

\* delete_vector_store; ok: shutil.rmtree does not raise.  A failing rmtree
\* leaves the directory in place, with or without its content.
delete_vector_store(ok, partial) ==
    IF disk.state # "absent"
    THEN IF ok THEN [raised |-> FALSE, disk |-> DiskAbsent]
         ELSE [raised |-> TRUE, disk |-> IF partial THEN DiskEmptyDir ELSE disk]
    ELSE [raised |-> FALSE, disk |-> disk]

\* A value of a dict field that holds an int or a str
IntVal(n) == [tag |-> "int", int |-> n, str |-> ""]
StrVal(s) == [tag |-> "str", int |-> 0, str |-> s]

\* get_vector_store_stats(vs); countOk: collection.count() does not raise
get_vector_store_stats(vs, countOk) ==
    IF vs = "None"
    THEN [exists |-> FALSE, total_documents |-> IntVal(0), error |-> FALSE]
    ELSE IF countOk /\ disk.state = "index"
    THEN [exists |-> TRUE, total_documents |-> IntVal(Len(disk.docs)), error |-> FALSE]
    ELSE [exists |-> TRUE, total_documents |-> StrVal("unknown"), error |-> TRUE]

(***************************************************************************)
(* backend_api/app.py                                                      *)
(***************************************************************************)
NoUpload  == [active |-> FALSE, n |-> 0, done |-> 0, all_chunks |-> <<>>]
NoResp    == [op |-> "none", status |-> 0]

\* The names /upload is driven with
UploadNames == {Name_a_pdf, Name_a_PDF, Name_a_txt}

\* Room left in the index within the model's bound
Room(u) == MaxDocs - Len(disk.docs) - Len(u.all_chunks)

\* Config.validate(): raises when the key is missing
ConfigValidate == apiKey

\* startup_event: validate, then load; any exception is printed and swallowed,
\* and the application goes on to serve requests
Startup ==
    /\ phase = "boot"
    /\ phase' = "serving"
    /\ IF ~ConfigValidate
       THEN /\ resp' = [op |-> "startup", status |-> 0, validated |-> FALSE,
                        dir |-> disk.state, load |-> "not_called"]
            /\ UNCHANGED vector_store
       ELSE \E listOk \in BOOLEAN, openOk \in BOOLEAN :
              LET r == load_existing_vector_store(listOk, openOk)
              IN  /\ resp' = [op |-> "startup", status |-> 0, validated |-> TRUE,
                              dir |-> disk.state, load |-> r.outcome]
                  /\ vector_store' = IF r.raised THEN vector_store ELSE r.handle
    /\ UNCHANGED <<apiKey, disk, upload, fresh, tmpLeft, procVars, qaVars, uiVars, loopVars>>

\* The process is stopped and started again: the global is back to its initial value
Restart ==
    /\ phase = "serving"
    /\ ~upload.active
    /\ phase' = "boot"
    /\ vector_store' = "None"
    /\ UNCHANGED <<apiKey, disk, upload, resp, fresh, tmpLeft, procVars, qaVars, uiVars, loopVars>>

\* GET /health
HealthCheck ==
    /\ phase = "serving"
    /\ resp' = [op |-> "health", status |-> 200, vector_store_loaded |-> vector_store # "None"]
    /\ UNCHANGED <<phase, apiKey, vector_store, disk, upload, fresh, tmpLeft,
                   procVars, qaVars, uiVars, loopVars>>

\* Faulty variant: the chunks collected before the failure are indexed
UploadRaise_KeepsCollected(cause, tmp, u) ==
    /\ resp' = [op |-> "upload", status |-> 500, cause |-> cause,
                collected |-> Len(u.all_chunks)]
    /\ upload' = NoUpload
    /\ tmp <= MaxTmp
    /\ tmpLeft' = tmp
    /\ disk' = IF u.all_chunks # <<>> THEN DiskIndex(disk.docs \o u.all_chunks) ELSE disk
    /\ UNCHANGED <<vector_store, fresh>>

\* /upload's `except Exception`: every exception raised inside the try block,
\* the HTTPException(400) of the filename check included, becomes a 500.
\* u: the request, with the chunks it has collected from the files before.
UploadRaise(cause, tmp, u) ==
    /\ resp' = [op |-> "upload", status |-> 500, cause |-> cause,
                collected |-> Len(u.all_chunks)]
    /\ upload' = NoUpload
    /\ tmp <= MaxTmp
    /\ tmpLeft' = tmp
    /\ UNCHANGED <<vector_store, disk, fresh>>

\* Lines 154-165: stats, add_to_vector_store, the response
UploadFinish(u, tmp, addOk) ==
    LET stats == get_document_stats(u.all_chunks)
        r     == add_to_vector_store(u.all_chunks, vector_store, addOk)
        add   == [given |-> vector_store, chunks |-> u.all_chunks, before |-> disk,
                  returned |-> r.handle, after |-> r.disk]
    IN  /\ disk' = r.disk
        /\ upload' = NoUpload
        /\ tmpLeft' = tmp
        /\ IF r.raised
           THEN /\ resp' = [op |-> "upload", status |-> 500, cause |-> "indexing"]
                /\ UNCHANGED <<vector_store, fresh>>
           ELSE /\ vector_store' = r.handle
                /\ resp' = [op |-> "upload", status |-> 200, cause |-> "none",
                            files_processed |-> u.n, total_chunks |-> Len(u.all_chunks),
                            stats |-> stats, add |-> add]
                /\ fresh' = [valid |-> fresh.valid,
                             adds  |-> IF fresh.adds = 0 THEN 1 ELSE 2,
                             total |-> fresh.total + Len(u.all_chunks)]

\* Lines 133-143 for the next file, or lines 154-165 when there is none left:
\* the filename check, the temp file, then the handler waits for file.read().
UploadNext(u, tmp) ==
    IF u.done = u.n
    THEN \E addOk \in BOOLEAN : UploadFinish(u, tmp, addOk)
    ELSE \E name \in UploadNames :
           IF ~EndsWith(name, DotPdf)
           THEN UploadRaise("not_pdf", tmp, u)
           ELSE /\ upload' = [u EXCEPT !.active = TRUE]
                /\ tmpLeft' = tmp
                /\ UNCHANGED <<vector_store, disk, resp, fresh>>

\* POST /upload arrives with n files
UploadStart ==
    /\ phase = "serving"
    /\ ~upload.active
    /\ \E n \in 0..MaxFiles :
         IF n = 0
         THEN /\ resp' = [op |-> "upload", status |-> 400, cause |-> "no_files"]
              /\ UNCHANGED <<vector_store, disk, upload, fresh, tmpLeft>>
         ELSE UploadNext([active |-> FALSE, n |-> n, done |-> 0, all_chunks |-> <<>>],
                         tmpLeft)
    /\ UNCHANGED <<phase, apiKey, procVars, qaVars, uiVars, loopVars>>

\* `await file.read()` returns or raises; lines 141-152 for that file, then on
\* to the next file.  The handler's temp file is removed only by the `finally`
\* around process_pdf_file, which the read and the write precede.
UploadResume ==
    /\ phase = "serving"
    /\ upload.active
    /\ \E fail \in Fails \cup {"hwrite"}, chunks \in SeqsUpTo(ChunkLens, MaxDocs) :
         /\ Len(chunks) <= Room(upload)
         /\ fail # "none" => chunks = <<>>
         /\ IF fail \in {"read", "hwrite"}
            THEN UploadRaise("processing", tmpLeft + 1, upload)
            ELSE LET r == process_pdf_file([fail |-> fail, chunks |-> chunks])
                     tmp == tmpLeft + r.tmpLeft
                 IN  IF r.raised
                     THEN UploadRaise("processing", tmp, upload)
                     ELSE UploadNext([upload EXCEPT !.active = FALSE,
                                                    !.done = @ + 1,
                                                    !.all_chunks = @ \o r.chunks],
                                     tmp)
    /\ UNCHANGED <<phase, apiKey, procVars, qaVars, uiVars, loopVars>>

\* Config.DEFAULT_MODEL and Config.TEMPERATURE; "None" is Python's None
DEFAULT_MODEL == "gpt-3.5-turbo"
TEMPERATURE   == "0.7"

\* What a client puts in an optional field of the /ask body: nothing, null, a value
AskModels       == {"omitted", "null", "gpt-4o"}
AskTemperatures == {"omitted", "null", "0.2"}

\* AskRequest: an omitted field takes the declared default, null stays None
AskRequest(m, t) ==
    [model       |-> IF m = "omitted" THEN DEFAULT_MODEL ELSE IF m = "null" THEN "None" ELSE m,
     temperature |-> IF t = "omitted" THEN TEMPERATURE ELSE IF t = "null" THEN "None" ELSE t]

AskOutcomes == {"ok", "retrieval_raises", "model_raises"}

\* Faulty variant: a failed call of the chat model is attempted a second time
ask_question_Retries(model_name, temperature, outcome) ==
    LET model == IF model_name = "None" THEN DEFAULT_MODEL ELSE model_name
        temp  == IF temperature = "None" THEN TEMPERATURE ELSE temperature
    IN  IF ~apiKey
        THEN [raised |-> TRUE, error |-> "no_api_key", model_used |-> model,
              temperature_used |-> temp, retriever_calls |-> 0, model_calls |-> 0]
        ELSE IF outcome = "retrieval_raises"
        THEN [raised |-> TRUE, error |-> "retrieval", model_used |-> model,
              temperature_used |-> temp, retriever_calls |-> 1, model_calls |-> 0]
        ELSE IF outcome = "model_raises"
        THEN [raised |-> TRUE, error |-> "model", model_used |-> model,
              temperature_used |-> temp, retriever_calls |-> 1, model_calls |-> 2]
        ELSE [raised |-> FALSE, error |-> "none", model_used |-> model,
              temperature_used |-> temp, retriever_calls |-> 1, model_calls |-> 1]

\* ask_question(query, vector_store, model_name, chat_history, temperature):
\* defaults (lines 86-93), ChatOpenAI (raises without a key), one
\* retriever.invoke, one chain.invoke.  outcome: what the two calls do.
ask_question(model_name, temperature, outcome) ==
    LET model == IF model_name = "None" THEN DEFAULT_MODEL ELSE model_name
        temp  == IF temperature = "None" THEN TEMPERATURE ELSE temperature
    IN  IF ~apiKey
        THEN [raised |-> TRUE, error |-> "no_api_key", model_used |-> model,
              temperature_used |-> temp, retriever_calls |-> 0, model_calls |-> 0]
        ELSE IF outcome = "retrieval_raises"
        THEN [raised |-> TRUE, error |-> "retrieval", model_used |-> model,
              temperature_used |-> temp, retriever_calls |-> 1, model_calls |-> 0]
        ELSE IF outcome = "model_raises"
        THEN [raised |-> TRUE, error |-> "model", model_used |-> model,
              temperature_used |-> temp, retriever_calls |-> 1, model_calls |-> 1]
        ELSE [raised |-> FALSE, error |-> "none", model_used |-> model,
              temperature_used |-> temp, retriever_calls |-> 1, model_calls |-> 1]

\* The /ask handler on request `req`: the response it sends, with what the
\* call did.  The request and the values used are kept for a generation that
\* succeeded.  AskResponse declares model: str, so building it from
\* request.model = None raises inside the try block and the `except Exception`
\* answers 500.
NoReq == [model |-> "None", temperature |-> "None"]

AskHandler(req, outcome) ==
    IF vector_store = "None"
    THEN [op |-> "ask", status |-> 400, detail |-> "no_documents", error |-> "none",
          handle |-> vector_store, docs |-> Len(disk.docs),
          retriever |-> FALSE, model |-> FALSE, model_calls |-> 0,
          req |-> NoReq, model_used |-> "None", temperature_used |-> "None",
          body_model |-> "None"]
    ELSE LET r  == ask_question(req.model, req.temperature, outcome)
             ok == ~r.raised /\ req.model # "None"
         IN  [op |-> "ask",
              status |-> IF ok THEN 200 ELSE 500,
              detail |-> IF ok THEN "answer" ELSE "error",
              error  |-> IF r.raised THEN r.error
                         ELSE IF req.model = "None" THEN "response_validation" ELSE "none",
              handle |-> vector_store, docs |-> Len(disk.docs),
              retriever |-> r.retriever_calls > 0,
              model |-> r.model_calls > 0,
              model_calls |-> r.model_calls,
              req |-> IF r.raised THEN NoReq ELSE req,
              model_used |-> IF r.raised THEN "None" ELSE r.model_used,
              temperature_used |-> IF r.raised THEN "None" ELSE r.temperature_used,
              body_model |-> IF ok THEN req.model ELSE "None"]

\* POST /ask with the optional fields drawn from M and T
AskWith(M, T) ==
    /\ phase = "serving"
    /\ \E m \in M, t \in T, outcome \in AskOutcomes :
         resp' = AskHandler(AskRequest(m, t), outcome)
    /\ UNCHANGED <<phase, apiKey, vector_store, disk, upload, fresh, tmpLeft,
                   procVars, qaVars, uiVars, loopVars>>

\* POST /ask {"query": ...}: the optional fields left out
Ask == AskWith({"omitted"}, {"omitted"})

\* POST /ask with any body
AskAny == AskWith(AskModels, AskTemperatures)

\* GET /stats: StatsResponse declares total_documents: int, so the model
\* validation raises on the "unknown" marker and the request answers 500.
GetStats ==
    /\ phase = "serving"
    /\ \E countOk \in BOOLEAN :
         LET stats == get_vector_store_stats(vector_store, countOk)
         IN  resp' = IF stats.total_documents.tag = "int"
                     THEN [op |-> "stats", status |-> 200, exists |-> stats.exists,
                           total_documents |-> stats.total_documents.int,
                           introspection_failed |-> stats.error]
                     ELSE [op |-> "stats", status |-> 500, exists |-> stats.exists,
                           total_documents |-> 0,
                           introspection_failed |-> stats.error]
    /\ UNCHANGED <<phase, apiKey, vector_store, disk, upload, fresh, tmpLeft,
                   procVars, qaVars, uiVars, loopVars>>

\* DELETE /reset
Reset ==
    /\ phase = "serving"
    /\ \E ok \in BOOLEAN, partial \in BOOLEAN :
         LET r == delete_vector_store(ok, partial)
         IN  /\ disk' = r.disk
             /\ IF r.raised
                THEN /\ resp' = [op |-> "reset", status |-> 500, dir_was |-> disk.state,
                                 handle_was |-> vector_store]
                     /\ UNCHANGED vector_store
                ELSE /\ resp' = [op |-> "reset", status |-> 200, dir_was |-> disk.state,
                                 handle_was |-> vector_store]
                     /\ vector_store' = "None"
             /\ fresh' = IF r.disk.docs = <<>>
                         THEN [valid |-> TRUE, adds |-> 0, total |-> 0]
                         ELSE fresh
    /\ UNCHANGED <<phase, apiKey, upload, tmpLeft, procVars, qaVars, uiVars, loopVars>>

(***************************************************************************)
(* frontend/streamlit_app.py (the embedded UI) and                         *)
(* frontend/streamlit_app_api_client.py (the REST-client UI), driven by    *)
(* the same user actions over a backend that answers both alike.           *)
(***************************************************************************)
Questions == {"q1", "q2"}

UserMsg(q)   == [role |-> "user", content |-> q]
AnswerMsg    == [role |-> "ai", content |-> "answer"]
\* f"❌ Erro ao gerar resposta: {str(e)}"
ErrorMsg     == [role |-> "ai", content |-> "Erro ao gerar resposta"]

NoTurn == [pc |-> "idle", question |-> "", outcome |-> "", activeE |-> FALSE,
           beforeE |-> <<>>, beforeR |-> <<>>, histE |-> <<>>, histR |-> <<>>]

\* Faulty variant: the history handed to the call includes the current question
HistoryForCall_WithQuestion(msgs) == msgs

\* chat_history = st.session_state["messages"][:-1]
HistoryForCall(msgs) == SubSeq(msgs, 1, Len(msgs) - 1)

\* What the backend does with a question: no index is loaded, or it answers,
\* or the retrieval or the model call fails
BackendOutcomes == IF uiStore THEN {"answer", "upstream_error"} ELSE {"no_index"}

\* handle_user_question up to the question being appended.  The embedded UI
\* returns with a warning when its session holds no handle; the REST client
\* appends the question unconditionally.
UserAsks ==
    /\ turn.pc \in {"idle", "ended"}
    /\ Len(msgsE) + 2 <= MaxMsgs
    /\ Len(msgsR) + 2 <= MaxMsgs
    /\ \E q \in Questions :
         /\ msgsE' = IF uiStore THEN Append(msgsE, UserMsg(q)) ELSE msgsE
         /\ msgsR' = Append(msgsR, UserMsg(q))
         /\ turn' = [NoTurn EXCEPT !.pc = "asked", !.question = q, !.activeE = uiStore,
                                   !.beforeE = msgsE, !.beforeR = msgsR]
    /\ UNCHANGED <<uiStore, sessions, apiVars, tmpLeft, procVars, qaVars,
                   loopVars>>

\* The history is taken and ask_question / ask_question_api is called
CallBackend ==
    /\ turn.pc = "asked"
    /\ turn' = [turn EXCEPT !.pc = "called",
                            !.histE = IF turn.activeE THEN HistoryForCall(msgsE) ELSE <<>>,
                            !.histR = HistoryForCall(msgsR)]
    /\ UNCHANGED <<uiStore, msgsE, msgsR, sessions, apiVars, tmpLeft, procVars, qaVars,
                   loopVars>>

\* The call returns or raises.  Embedded UI: the answer, or the error message,
\* is appended as an ai entry.  REST client: the answer is appended; an HTTP
\* error (400 no index, 500 upstream) or a connection error is only displayed.
Reply ==
    /\ turn.pc = "called"
    /\ \E outcome \in BackendOutcomes :
         /\ msgsE' = IF ~turn.activeE THEN msgsE
                     ELSE IF outcome = "answer" THEN Append(msgsE, AnswerMsg)
                     ELSE Append(msgsE, ErrorMsg)
         /\ msgsR' = IF outcome = "answer" THEN Append(msgsR, AnswerMsg) ELSE msgsR
         /\ turn' = [turn EXCEPT !.pc = "ended", !.outcome = outcome]
    /\ UNCHANGED <<uiStore, sessions, apiVars, tmpLeft, procVars, qaVars,
                   loopVars>>

\* "Limpar Chat"
ClearChat ==
    /\ turn.pc \in {"idle", "ended"}
    /\ msgsE' = <<>>
    /\ msgsR' = <<>>
    /\ turn' = NoTurn
    /\ UNCHANGED <<uiStore, sessions, apiVars, tmpLeft, procVars, qaVars,
                   loopVars>>

\* "Resetar DB".  reset_database (embedded) acts only when the session holds a
\* handle; reset_db_api calls DELETE /reset.  Both clear the messages when the
\* deletion succeeded.  ok: the deletion does not fail.
ResetDB ==
    /\ turn.pc \in {"idle", "ended"}
    /\ \E ok \in BOOLEAN :
         /\ msgsE' = IF uiStore /\ ok THEN <<>> ELSE msgsE
         /\ msgsR' = IF ok THEN <<>> ELSE msgsR
         /\ uiStore' = IF ok THEN FALSE ELSE uiStore
    /\ turn' = NoTurn
    /\ UNCHANGED <<sessions, apiVars, tmpLeft, procVars, qaVars,
                   loopVars>>

\* "Processar Documentos": the messages are not touched
UploadDocs ==
    /\ turn.pc \in {"idle", "ended"}
    /\ \E ok \in BOOLEAN : uiStore' = (uiStore \/ ok)
    /\ UNCHANGED <<msgsE, msgsR, turn, sessions, apiVars, tmpLeft, procVars, qaVars,
                   loopVars>>

(***************************************************************************)
(* frontend/streamlit_app.py run by several browser sessions of one        *)
(* Streamlit server: each session has its own st.session_state, all share  *)
(* the persisted directory.                                                *)
(***************************************************************************)
Sessions == {1, 2}

\* "vector_store" not in st.session_state; then the handle the session holds
\* and what render_vector_store_stats last showed
NoSession == [started |-> FALSE, vector_store |-> "None", shown |-> "nothing"]

SessionUnchanged ==
    UNCHANGED <<phase, apiKey, vector_store, upload, resp, fresh, tmpLeft, procVars, qaVars,
                uiStore, msgsE, msgsR, turn, loopVars>>

\* initialize_session_state on the session's first run: the handle is loaded
\* once; an exception of the load ends the run with the key still missing
SessionOpen ==
    /\ \E s \in Sessions, listOk \in BOOLEAN, openOk \in BOOLEAN :
         /\ ~sessions[s].started
         /\ LET r == load_existing_vector_store(listOk, openOk)
            IN  sessions' = IF r.raised THEN sessions
                            ELSE [sessions EXCEPT ![s].started = TRUE,
                                                  ![s].vector_store = r.handle]
    /\ UNCHANGED disk
    /\ SessionUnchanged

\* process_documents: the chunks are added through the session's handle
SessionProcess ==
    /\ \E s \in Sessions, chunks \in SeqsUpTo(ChunkLens, MaxDocs), ok \in BOOLEAN :
         /\ sessions[s].started
         /\ Len(disk.docs) + Len(chunks) <= MaxDocs
         /\ LET r == add_to_vector_store(chunks, sessions[s].vector_store, ok)
            IN  /\ disk' = r.disk
                /\ sessions' = IF r.raised THEN sessions
                                ELSE [sessions EXCEPT ![s].vector_store = r.handle]
    /\ SessionUnchanged

\* render_vector_store_stats
SessionStats ==
    /\ \E s \in Sessions, countOk \in BOOLEAN :
         /\ sessions[s].started
         /\ LET stats == get_vector_store_stats(sessions[s].vector_store, countOk)
            IN  sessions' = [sessions EXCEPT ![s].shown =
                                IF stats.exists THEN "documents" ELSE "no_documents"]
    /\ UNCHANGED disk
    /\ SessionUnchanged

\* reset_database: only a session that holds a handle deletes the directory,
\* and only its own st.session_state is cleared
SessionReset ==
    /\ \E s \in Sessions, ok \in BOOLEAN, partial \in BOOLEAN :
         /\ sessions[s].started
         /\ IF sessions[s].vector_store # "None"
            THEN LET r == delete_vector_store(ok, partial)
                 IN  /\ disk' = r.disk
                     /\ sessions' = IF r.raised THEN sessions
                                     ELSE [sessions EXCEPT ![s].vector_store = "None"]
            ELSE UNCHANGED <<disk, sessions>>
    /\ SessionUnchanged

InitSessionsIdle == sessions = [s \in Sessions |-> NoSession]

InitUIIdle ==
    /\ InitSessionsIdle
    /\ uiStore = FALSE
    /\ msgsE = <<>>
    /\ msgsR = <<>>
    /\ turn = NoTurn

(***************************************************************************)
(* backend_api/app.py as the event loop runs it.  Every handler is an       *)
(* `async def` whose only await is `await file.read()` in /upload: the loop *)
(* runs a handler from its start, or from that await, to its next await or  *)
(* its return, and the calls of the embedding, retrieval and chat backends  *)
(* are made synchronously on the loop.                                      *)
(***************************************************************************)
Reqs == 1..MaxReqs

NoSaw    == [read |-> FALSE, handle |-> "None", docs |-> 0, half |-> FALSE]
Unsent   == [kind |-> "none", pc |-> "unsent", status |-> 0, responses |-> 0,
             hung |-> FALSE, overlap |-> FALSE, saw |-> NoSaw]
LoopIdle == [busy |-> 0, at |-> "idle", handle |-> "None"]

\* The chunks of an uploaded file in this view
LoopChunks == <<1>>

\* Faulty variant: handlers run on threads, one may start while another runs
LoopFree_Threaded == TRUE

\* The loop can start or resume a handler only when it is running none
LoopFree == loop.busy = 0

\* An upload has arrived and has not been answered yet
UploadInFlight == \E u \in Reqs : reqs[u].kind = "upload" /\ reqs[u].pc \notin {"unsent", "done"}

\* The response of request r is sent
Respond(r, status) ==
    [reqs EXCEPT ![r].pc = "done", ![r].status = status, ![r].responses = @ + 1]

\* A client sends POST /upload (one .pdf file) or POST /ask
LoopArrive ==
    /\ \E r \in Reqs, kind \in {"upload", "ask"} :
         /\ reqs[r].pc = "unsent"
         /\ r > 1 => reqs[r - 1].pc # "unsent"
         /\ reqs' = [reqs EXCEPT ![r] = [Unsent EXCEPT !.kind = kind, !.pc = "queued",
                                                       !.overlap = UploadInFlight]]
    /\ UNCHANGED <<loop, apiVars, tmpLeft, procVars, qaVars, uiVars>>

\* upload_documents, lines 124-141: up to `await file.read()`
LoopUploadBegin ==
    /\ LoopFree
    /\ \E r \in Reqs :
         /\ reqs[r].kind = "upload"
         /\ reqs[r].pc = "queued"
         /\ reqs' = [reqs EXCEPT ![r].pc = "reading"]
    /\ UNCHANGED <<loop, apiVars, tmpLeft, procVars, qaVars, uiVars>>

\* file.read() returns or raises, off the loop
LoopReadEnds ==
    /\ \E r \in Reqs, ok \in BOOLEAN :
         /\ reqs[r].pc = "reading"
         /\ reqs' = [reqs EXCEPT ![r].pc = IF ok THEN "readable" ELSE "read_raised"]
    /\ UNCHANGED <<loop, apiVars, tmpLeft, procVars, qaVars, uiVars>>

\* upload_documents resumes, lines 141-158: the exception of the read, or
\* process_pdf_file and get_document_stats, then into add_to_vector_store
LoopUploadResume ==
    /\ LoopFree
    /\ \E r \in Reqs, pdfOk \in BOOLEAN :
         /\ reqs[r].pc \in {"readable", "read_raised"}
         /\ IF reqs[r].pc = "read_raised" \/ ~pdfOk
            THEN /\ reqs' = Respond(r, 500)
                 /\ UNCHANGED loop
            ELSE /\ reqs' = [reqs EXCEPT ![r].pc = "running"]
                 /\ loop' = [busy |-> r, at |-> "embedding", handle |-> "None"]
    /\ UNCHANGED <<apiVars, tmpLeft, procVars, qaVars, uiVars>>

\* add_to_vector_store returns or raises: the index on disk has changed, the
\* global has not been assigned yet
LoopEmbedEnds ==
    /\ loop.busy # 0
    /\ loop.at = "embedding"
    /\ ~reqs[loop.busy].hung
    /\ \E ok \in BOOLEAN :
         LET a == add_to_vector_store(LoopChunks, vector_store, ok)
         IN  /\ disk' = a.disk
             /\ IF a.raised
                THEN /\ reqs' = Respond(loop.busy, 500)
                     /\ loop' = LoopIdle
                ELSE /\ loop' = [loop EXCEPT !.at = "assign", !.handle = a.handle]
                     /\ UNCHANGED reqs
    /\ UNCHANGED <<phase, apiKey, vector_store, upload, resp, fresh, tmpLeft, procVars,
                   qaVars, uiVars>>

\* Line 158's assignment of the global, and the response
LoopAssign ==
    /\ loop.busy # 0
    /\ loop.at = "assign"
    /\ vector_store' = loop.handle
    /\ reqs' = Respond(loop.busy, 200)
    /\ loop' = LoopIdle
    /\ UNCHANGED <<phase, apiKey, disk, upload, resp, fresh, tmpLeft, procVars, qaVars,
                   uiVars>>

\* ask, lines 182-190: the global is read; 400 without a handle, else into
\* ask_question
LoopAskBegin ==
    /\ LoopFree
    /\ \E r \in Reqs :
         /\ reqs[r].kind = "ask"
         /\ reqs[r].pc = "queued"
         /\ LET saw == [read |-> TRUE, handle |-> vector_store, docs |-> Len(disk.docs),
                        half |-> loop.at = "assign"]
            IN  IF vector_store = "None"
                THEN /\ reqs' = [Respond(r, 400) EXCEPT ![r].saw = saw]
                     /\ UNCHANGED loop
                ELSE /\ reqs' = [reqs EXCEPT ![r].pc = "running", ![r].saw = saw]
                     /\ loop' = [busy |-> r, at |-> "retrieval", handle |-> "None"]
    /\ UNCHANGED <<apiVars, tmpLeft, procVars, qaVars, uiVars>>

\* retriever.invoke returns or raises
LoopRetrievalEnds ==
    /\ loop.busy # 0
    /\ loop.at = "retrieval"
    /\ ~reqs[loop.busy].hung
    /\ \E ok \in BOOLEAN :
         IF ok
         THEN /\ loop' = [loop EXCEPT !.at = "model"]
              /\ UNCHANGED reqs
         ELSE /\ reqs' = Respond(loop.busy, 500)
              /\ loop' = LoopIdle
    /\ UNCHANGED <<apiVars, tmpLeft, procVars, qaVars, uiVars>>

\* chain.invoke returns or raises
LoopModelEnds ==
    /\ loop.busy # 0
    /\ loop.at = "model"
    /\ ~reqs[loop.busy].hung
    /\ \E ok \in BOOLEAN : reqs' = Respond(loop.busy, IF ok THEN 200 ELSE 500)
    /\ loop' = LoopIdle
    /\ UNCHANGED <<apiVars, tmpLeft, procVars, qaVars, uiVars>>

\* The embedding call or the chat-model call never returns: no timeout is set
LoopCallHangs ==
    /\ loop.busy # 0
    /\ loop.at \in {"embedding", "model"}
    /\ ~reqs[loop.busy].hung
    /\ reqs' = [reqs EXCEPT ![loop.busy].hung = TRUE]
    /\ UNCHANGED <<loop, apiVars, tmpLeft, procVars, qaVars, uiVars>>

InitLoopIdle ==
    /\ loop = LoopIdle
    /\ reqs = [r \in Reqs |-> Unsent]

InitApi ==
    /\ phase = "boot"
    /\ apiKey \in BOOLEAN
    /\ vector_store = "None"
    /\ disk = DiskAbsent
    /\ tmpLeft = 0
    /\ upload = NoUpload
    /\ resp = NoResp
    /\ fresh = [valid |-> TRUE, adds |-> 0, total |-> 0]

InitProcIdle ==
    /\ procPc = "loop"
    /\ files = <<>>
    /\ all_chunks = <<>>
    /\ procRaised = FALSE
    /\ docStats = [total_chunks |-> 0, total_characters |-> 0, avg_chunk_size |-> 0]
    /\ split = NoSplit

InitQAIdle ==
    /\ qaIn = [query |-> "C", chat_history |-> NoHistory, docs |-> <<>>]
    /\ qaPc = "start"
    /\ messages = <<>>

Init == InitApi /\ InitProcIdle /\ InitQAIdle /\ InitUIIdle /\ InitLoopIdle

Next ==
    \/ Startup
    \/ Restart
    \/ HealthCheck
    \/ UploadStart
    \/ UploadResume
    \/ Ask
    \/ GetStats
    \/ Reset

Spec == Init /\ [][Next]_vars

InitApiIdle ==
    /\ phase = "boot"
    /\ apiKey = TRUE
    /\ vector_store = "None"
    /\ disk = DiskAbsent
    /\ tmpLeft = 0
    /\ upload = NoUpload
    /\ resp = NoResp
    /\ fresh = [valid |-> TRUE, adds |-> 0, total |-> 0]

\* The document processor on its own: process_multiple_files over every batch
\* of at most MaxFiles files, then get_document_stats on what it returned.
InitProc == InitApiIdle /\ InitProcIdle /\ InitQAIdle /\ InitUIIdle /\ InitLoopIdle

NextProc ==
    \/ ProcessFile
    \/ ProcessReturn
    \/ DocumentStats

SpecProc == InitProc /\ [][NextProc]_vars

\* ask_question on its own, over every query, history and retrieval result
InitQA ==
    /\ InitApiIdle
    /\ InitProcIdle
    /\ qaIn \in [query : Queries, chat_history : Histories, docs : RetrievedDocs]
    /\ qaPc = "start"
    /\ messages = <<>>
    /\ InitUIIdle
    /\ InitLoopIdle

NextQA ==
    \/ QARetrieve
    \/ QABuild
    \/ QAInvoke

SpecQA == InitQA /\ [][NextQA]_vars

\* The API of one process run, asked with every request body: startup,
\* uploads, and /ask with the optional fields omitted, null or given.
NextAsk ==
    \/ Startup
    \/ UploadStart
    \/ UploadResume
    \/ AskAny

SpecAsk == Init /\ [][NextAsk]_vars

\* process_txt_file on every text of 2400 characters of Texts2400
InitSplit ==
    /\ InitApiIdle
    /\ procPc = "loop"
    /\ files = <<>>
    /\ all_chunks = <<>>
    /\ procRaised = FALSE
    /\ docStats = [total_chunks |-> 0, total_characters |-> 0, avg_chunk_size |-> 0]
    /\ split \in {[text |-> t, i |-> 1, lo |-> 1, total |-> 0, docs |-> <<>>, pc |-> "loop"] :
                     t \in Texts2400}
    /\ InitQAIdle
    /\ InitUIIdle
    /\ InitLoopIdle

NextSplit ==
    \/ SplitterTake
    \/ SplitterPop
    \/ SplitterFinish

SpecSplit == InitSplit /\ [][NextSplit]_vars

\* The two UIs, driven in step by one user
InitUI == InitApiIdle /\ InitProcIdle /\ InitQAIdle /\ InitUIIdle /\ InitLoopIdle

NextUI ==
    \/ UserAsks
    \/ CallBackend
    \/ Reply
    \/ ClearChat
    \/ ResetDB
    \/ UploadDocs

SpecUI == InitUI /\ [][NextUI]_vars

\* Two browser sessions of the embedded UI over one persisted directory
InitSessions == InitApiIdle /\ InitProcIdle /\ InitQAIdle /\ InitUIIdle /\ InitLoopIdle

NextSessions ==
    \/ SessionOpen
    \/ SessionProcess
    \/ SessionStats
    \/ SessionReset

SpecSessions == InitSessions /\ [][NextSessions]_vars

\* The serving API process with requests arriving at its event loop
InitLoop ==
    /\ phase = "serving"
    /\ apiKey = TRUE
    /\ vector_store = "None"
    /\ disk = DiskAbsent
    /\ tmpLeft = 0
    /\ upload = NoUpload
    /\ resp = NoResp
    /\ fresh = [valid |-> TRUE, adds |-> 0, total |-> 0]
    /\ InitProcIdle
    /\ InitQAIdle
    /\ InitUIIdle
    /\ InitLoopIdle

NextLoop ==
    \/ LoopArrive
    \/ LoopUploadBegin
    \/ LoopReadEnds
    \/ LoopUploadResume
    \/ LoopEmbedEnds
    \/ LoopAssign
    \/ LoopAskBegin
    \/ LoopRetrievalEnds
    \/ LoopModelEnds
    \/ LoopCallHangs

\* The loop runs a handler that can run, and a call that has not hung returns
\* or raises.  Nothing makes a client send a request or a hung call return.
LoopFairness ==
    /\ WF_vars(LoopUploadBegin)
    /\ WF_vars(LoopReadEnds)
    /\ WF_vars(LoopUploadResume)
    /\ WF_vars(LoopEmbedEnds)
    /\ WF_vars(LoopAssign)
    /\ WF_vars(LoopAskBegin)
    /\ WF_vars(LoopRetrievalEnds)
    /\ WF_vars(LoopModelEnds)

SpecLoop == InitLoop /\ [][NextLoop]_vars /\ LoopFairness

(***************************************************************************)
(* The claims.                                                             *)
(***************************************************************************)

\* C1 (as stated): a POST /ask issued while no handle is loaded, or while the
\* loaded index holds no documents, answers 400 "no documents loaded" and
\* reaches neither the retriever nor the chat model.
C1_AskWithoutDocumentsRejected ==
    (resp.op = "ask" /\ (resp.handle = "None" \/ resp.docs = 0))
        => /\ resp.status = 400
           /\ resp.detail = "no_documents"
           /\ ~resp.retriever
           /\ ~resp.model

\* C2 (as stated): POST /upload answers 400 when no files are sent or a file
\* name does not end in ".pdf", 500 when processing or indexing fails, and
\* {status, files_processed, total_chunks, stats} with status 200 otherwise.
C2_UploadStatusByCause ==
    resp.op = "upload"
        => /\ resp.cause \in {"no_files", "not_pdf"} => resp.status = 400
           /\ resp.cause \in {"processing", "indexing"} => resp.status = 500
           /\ resp.cause = "none"
                => /\ resp.status = 200
                   /\ resp.total_chunks = resp.stats.total_chunks
                   /\ resp.files_processed \in 1..MaxFiles

\* The stats a GET /stats issued in the current state computes say "no index"
StatsSayNoIndex ==
    \A countOk \in BOOLEAN :
        LET stats == get_vector_store_stats(vector_store, countOk)
        IN  ~stats.exists /\ stats.total_documents = IntVal(0)

\* C3 (as stated): after any DELETE /reset the handle is cleared and a
\* GET /stats that follows reports exists == false and total_documents == 0;
\* a reset of an absent directory answers success and leaves the disk alone.
C3_AnyResetClearsHandle ==
    resp.op = "reset"
        => /\ vector_store = "None"
           /\ StatsSayNoIndex
           /\ resp.dir_was = "absent" => (resp.status = 200 /\ disk.state = "absent")

\* C3 (amended): after any DELETE /reset that answers success the handle is
\* cleared, the directory is gone and a GET /stats that follows reports
\* exists == false and total_documents == 0; a reset of an absent directory
\* always answers success and leaves the disk alone.
C3_SuccessfulResetClearsHandle ==
    resp.op = "reset"
        => /\ resp.status = 200
                => (vector_store = "None" /\ disk.state = "absent" /\ StatsSayNoIndex)
           /\ resp.dir_was = "absent" => (resp.status = 200 /\ disk.state = "absent")

\* C3's case: a successful reset of a loaded, persisted index
C3_Witness ==
    /\ resp.op = "reset"
    /\ resp.status = 200
    /\ resp.handle_was # "None"
    /\ resp.dir_was = "index"

\* C4 (as stated): no call leaves its temporary file behind, whichever step
\* of it raises.
C4_NoTempFileLeft == tmpLeft = 0

\* The entries of a history that the prompt keeps
IsRecognized(m) == m.role \in {"user", "ai"}

PromptRole(role) == IF role = "user" THEN "human" ELSE "assistant"

HasExtension(name, e) ==
    /\ Len(name) >= Len(e)
    /\ Lower(SubSeq(name, Len(name) - Len(e) + 1, Len(name))) = e
    /\ Len(name) > Len(e) => name[Len(name) - Len(e)] = "."

Supported(name) ==
    \E e \in {Ext_pdf, Ext_txt, Ext_md, Ext_markdown} : HasExtension(name, e)

\* The chunks of the files that are supported and whose processing succeeded
RECURSIVE ChunksOfGoodFiles(_)
ChunksOfGoodFiles(fs) ==
    IF fs = <<>> THEN <<>>
    ELSE ChunksOfGoodFiles(SubSeq(fs, 1, Len(fs) - 1))
         \o (IF Supported(fs[Len(fs)].name) /\ fs[Len(fs)].fail = "none"
             THEN fs[Len(fs)].chunks ELSE <<>>)

\* C6: process_multiple_files raises for no file, and its result is the
\* concatenation, in input order, of the chunks of exactly the files whose
\* lower-cased last extension is pdf, txt, md or markdown and whose processing
\* succeeded.
C6_BatchSkipsBadFiles ==
    /\ ~procRaised
    /\ all_chunks = ChunksOfGoodFiles(files)

\* C6's case: the batch returned after a file that raised and an unsupported
\* file were followed by / mixed with a file that was processed
C6_Witness ==
    /\ procPc = "returned"
    /\ Len(files) = 2
    /\ files[1].fail # "none"
    /\ Supported(files[1].name)
    /\ files[2].fail = "none"
    /\ files[2].name = Name_a_b_TXT
    /\ all_chunks = <<1, 2>>

\* The number of chunks of length v, times v, summed over the lengths in S
RECURSIVE CharsByLength(_, _)
CharsByLength(chunks, S) ==
    IF S = {} THEN 0
    ELSE LET v == CHOOSE x \in S : TRUE
         IN  v * Cardinality({i \in 1..Len(chunks) : chunks[i] = v})
             + CharsByLength(chunks, S \ {v})

\* C7: total_chunks is the length of the sequence, total_characters the sum of
\* the chunk lengths, avg_chunk_size the floor of their quotient when the
\* sequence is non-empty, and all three are 0 when it is empty.
C7_DocumentStats ==
    procPc = "stats"
        => LET n == Len(all_chunks)
           IN  /\ docStats.total_chunks = n
               /\ docStats.total_characters = CharsByLength(all_chunks, ChunkLens)
               /\ n > 0 => /\ docStats.avg_chunk_size * n <= docStats.total_characters
                           /\ docStats.total_characters < (docStats.avg_chunk_size + 1) * n
               /\ n = 0 => docStats = [total_chunks |-> 0, total_characters |-> 0,
                                       avg_chunk_size |-> 0]

\* C7's case: stats of a non-empty sequence whose total is no multiple of its length
C7_Witness ==
    /\ procPc = "stats"
    /\ Len(all_chunks) = 3
    /\ docStats.total_characters = 4
    /\ docStats.avg_chunk_size = 1

\* C8 (as stated): a GET /stats answers successfully also when counting the
\* index's documents raises, reporting exists == true.
C8_StatsNeverFails ==
    resp.op = "stats"
        => /\ resp.status = 200
           /\ resp.introspection_failed => resp.exists

C10_CountCoversAdds ==
    (fresh.valid /\ vector_store # "None")
        => \A countOk \in BOOLEAN :
             LET stats == get_vector_store_stats(vector_store, countOk)
             IN  stats.total_documents.tag = "int"
                   => /\ stats.total_documents.int >= fresh.total
                      /\ fresh.adds = 1 => stats.total_documents.int = fresh.total

\* C10's case: stats answered after two successful adds to a fresh index
C10_Witness ==
    /\ fresh.valid
    /\ fresh.adds = 2
    /\ fresh.total = 2
    /\ resp.op = "stats"
    /\ resp.status = 200
    /\ resp.total_documents = 2

\* C11 (as stated): load_existing_vector_store never raises; it returns None
\* when the persist path is absent or an empty directory, tries to open the
\* index only when the directory exists and is non-empty, and returns None on
\* any failure while inspecting or opening the path.
C11_LoadNeverRaises ==
    (resp.op = "startup" /\ resp.validated)
        => /\ resp.load # "list_raised"
           /\ resp.dir \in {"absent", "emptydir"}
                => (resp.load = resp.dir /\ vector_store = "None")
           /\ resp.load \in {"opened", "open_raised"} => resp.dir = "index"
           /\ resp.load # "opened" => vector_store = "None"

\* C12 (as stated): Config.validate passes exactly when the key is present, and
\* after a failed validation the application serves no upload or ask request.
C12_MissingKeyIsFatal ==
    /\ resp.op = "startup" => (resp.validated <=> apiKey)
    /\ ~apiKey => resp.op \notin {"upload", "ask"}

\* What every response of a serving process says about the handle: health
\* reports vector_store_loaded as "the handle is set", and /ask is refused with
\* 400 exactly when the handle is not set.
HealthTellsHandle ==
    phase = "serving"
        => /\ resp.op = "health" => (resp.vector_store_loaded <=> vector_store # "None")
           /\ resp.op = "ask" => (resp.status = 400 <=> vector_store = "None")

\* C13 (as stated): every startup on a persisted index that holds documents
\* (a successful upload, then a restart) sets the handle, every startup
\* without a persisted directory leaves it unset, and health reports the
\* handle at all times.
C13_RestartAlwaysReloads ==
    [][/\ (phase = "boot" /\ phase' = "serving")
            => /\ disk.docs # <<>> => vector_store' # "None"
               /\ disk.state = "absent" => vector_store' = "None"
       /\ HealthTellsHandle']_vars

\* C13 (amended): a startup on a persisted index that holds documents sets the
\* handle provided that listing and opening the directory succeed; a startup
\* with the directory absent or empty leaves it unset; health reports the
\* handle at all times and /ask is served exactly when the handle is set.
C13_RestartReloadsWhenLoadable ==
    [][/\ (phase = "boot" /\ phase' = "serving")
            => /\ (disk.docs # <<>> /\ resp'.validated
                     /\ resp'.load \notin {"list_raised", "open_raised"})
                    => vector_store' # "None"
               /\ resp'.load \in {"list_raised", "open_raised", "not_called"}
                    => vector_store' = "None"
               /\ disk.state \in {"absent", "emptydir"} => vector_store' = "None"
       /\ HealthTellsHandle']_vars

\* C13's case: a process started on the index an earlier upload persisted
C13_Witness ==
    /\ phase = "serving"
    /\ resp.op = "startup"
    /\ resp.load = "opened"
    /\ disk.docs # <<>>
    /\ vector_store # "None"

C15_DefaultsResolved ==
    (resp.op = "ask" /\ resp.handle # "None"
       /\ resp.error \notin {"retrieval", "model", "no_api_key"})
        => /\ resp.status = 200
           /\ resp.model_used
                = (IF resp.req.model = "None" THEN DEFAULT_MODEL ELSE resp.req.model)
           /\ resp.temperature_used
                = (IF resp.req.temperature = "None" THEN TEMPERATURE
                   ELSE resp.req.temperature)
           /\ resp.body_model = resp.model_used

\* C16 (as stated): after every user action (ask, clear chat, reset) with the
\* same backend outcome, the embedded UI and the REST-client UI hold the same
\* message list.
C16_UIVariantsAgree ==
    turn.pc \in {"idle", "ended"} => msgsE = msgsR

\* The list `msgs` is `before` followed by what a turn on question q may have
\* appended so far: nothing, the question, or the question and then one reply
TurnGrew(before, msgs, q) ==
    \/ msgs = before
    \/ msgs = Append(before, UserMsg(q))
    \/ \E m \in {AnswerMsg, ErrorMsg} : msgs = before \o <<UserMsg(q), m>>

AskWaiting == \E r \in Reqs : reqs[r].kind = "ask" /\ reqs[r].pc = "queued"

\* C18 (as stated): the handle is unprotected: while an upload has changed the
\* index and has not assigned the handle yet, a waiting /ask can run and read
\* that half-updated state.
C18_AskAdmittedDuringUpdate ==
    (loop.at = "assign" /\ AskWaiting) => ENABLED LoopAskBegin

\* C18 (amended): no /ask reads the handle between an upload's change of the
\* index and its assignment of the handle: what an /ask reads is the state
\* before an upload's add or after its assignment, handle and index agreeing.
C18_NoHalfUpdatedRead ==
    \A r \in Reqs :
        reqs[r].saw.read
            => /\ ~reqs[r].saw.half
               /\ reqs[r].saw.handle = "None" <=> reqs[r].saw.docs = 0

\* C18's case: two /ask requests arrived while the same upload was in flight;
\* one ran during the upload's await and read the pre-upload state, the other
\* ran after the upload's handler returned and read the post-upload state
C18_Witness ==
    /\ Cardinality({u \in Reqs : reqs[u].kind = "upload"}) = 1
    /\ \E a, b \in Reqs :
         /\ reqs[a].kind = "ask" /\ reqs[a].overlap /\ reqs[a].saw.read
         /\ reqs[b].kind = "ask" /\ reqs[b].overlap /\ reqs[b].saw.read
         /\ reqs[a].saw.handle = "None"
         /\ reqs[b].saw.handle # "None"
         /\ reqs[b].saw.docs = Len(LoopChunks)

\* C20 (as stated): every request receives at most one response, and a request
\* that has arrived and whose own calls do not hang eventually receives one,
\* also while another request is blocked forever in a hung embedding or
\* chat-model call.
C20_HungCallBlocksOnlyItsRequest ==
    /\ [](\A r \in Reqs : reqs[r].responses <= 1)
    /\ \A r \in Reqs :
         (reqs[r].pc = "queued") ~> (reqs[r].pc = "done" \/ reqs[r].hung)

\* C17 (as stated): a .txt file of 2400 characters, split with chunk size
\* 1000 and overlap 400, yields exactly 4 chunks, and get_document_stats over
\* them reports total_characters == 2400.
C17_FourChunksOf2400 ==
    split.pc = "done"
        => /\ Len(all_chunks) = 4
           /\ docStats.total_characters = 2400

\* C17 (amended): a .txt file of 2400 characters that holds no separator
\* yields exactly 4 chunks, of 1000, 1000, 1000 and 600 characters, each
\* starting 600 characters after the one before, and total_characters is 3600:
\* the 400 characters that two consecutive chunks share count in both.  For
\* every text, no chunk is longer than the chunk size and total_characters is
\* the sum of the chunk lengths.
C17_FourOverlappingChunks ==
    split.pc = "done"
        => /\ \A k \in 1..Len(all_chunks) : all_chunks[k] \in 1..CHUNK_SIZE
           /\ docStats.total_chunks = Len(all_chunks)
           /\ docStats.total_characters = SumLen(all_chunks)
           /\ split.text = <<2400>>
                => /\ all_chunks = <<1000, 1000, 1000, 600>>
                   /\ docStats.total_characters = 3600
                   /\ docStats.total_characters
                        = 2400 + (Len(all_chunks) - 1) * CHUNK_OVERLAP

\* C17's case: the unbroken text of 2400 characters has been split
C17_Witness ==
    /\ split.pc = "done"
    /\ split.text = <<2400>>
    /\ docStats.total_chunks = 4

\* C21: in the API process a set handle implies that the persisted
\* directory exists; the handle goes from unset to set only by a startup that
\* opened the index or by an /upload that answered 200, and from set to unset,
\* while the process lives, only by a /reset that answered 200.
C21_HandleFollowsDirectory ==
    [][/\ vector_store' # "None" => disk'.state # "absent"
       /\ (vector_store = "None" /\ vector_store' # "None")
            => \/ (resp'.op = "startup" /\ resp'.load = "opened")
               \/ (resp'.op = "upload" /\ resp'.status = 200)
       /\ (vector_store # "None" /\ vector_store' = "None" /\ phase' = "serving")
            => (resp'.op = "reset" /\ resp'.status = 200)]_vars

\* C21's case: a /reset has failed while a handle was set, and the handle is
\* kept over a directory that is still there
C21_Witness ==
    /\ resp.op = "reset"
    /\ resp.status = 500
    /\ vector_store # "None"
    /\ disk.state = "emptydir"

\* C22: /upload is all-or-nothing.  No step of an /upload request that has
\* not reached its end, and no step that answers an error because there is no
\* file, a file is rejected or a file fails to process, adds a chunk to the
\* index or changes the handle: the chunks collected from the files before
\* are dropped with the request.
C22_UploadAllOrNothing ==
    [][((UploadStart \/ UploadResume)
          /\ \/ upload'.active
             \/ /\ resp'.op = "upload"
                /\ resp'.status >= 400
                /\ resp'.cause \in {"no_files", "not_pdf", "processing"})
        => /\ disk' = disk
           /\ vector_store' = vector_store]_vars

\* C22's case: a request fails at its second file after chunks were collected
\* from its first
C22_Witness ==
    /\ resp.op = "upload"
    /\ resp.status = 500
    /\ resp.cause \in {"not_pdf", "processing"}
    /\ resp.collected > 0

\* The /upload requests that have answered success
UploadsAnswered200 ==
    {r \in Reqs : reqs[r].kind = "upload" /\ reqs[r].pc = "done" /\ reqs[r].status = 200}

\* C23: concurrent /upload requests that answer success lose no update.
\* Whenever no handler is between add_to_vector_store and the assignment of
\* the global, the index holds the chunks of every /upload that has answered
\* success, and after such an answer the global refers to that index.
C23_NoLostUpload ==
    loop.at # "assign"
        => /\ Len(disk.docs) = Cardinality(UploadsAnswered200) * Len(LoopChunks)
           /\ UploadsAnswered200 # {} => (vector_store # "None" /\ disk.state = "index")

\* C23's case: the first two requests are uploads, the second arrived while
\* the first was in flight and no handle was set, and both answered success
C23_Witness ==
    /\ reqs[1].kind = "upload" /\ reqs[1].status = 200
    /\ reqs[2].kind = "upload" /\ reqs[2].status = 200
    /\ reqs[2].overlap
    /\ Len(disk.docs) = 2 * Len(LoopChunks)

\* user, ai, user, ai, ...: an even number of messages, the odd ones of the
\* user and the even ones of the ai
Alternates(msgs) ==
    /\ Len(msgs) % 2 = 0
    /\ \A k \in 1..Len(msgs) : msgs[k].role = IF k % 2 = 1 THEN "user" ELSE "ai"

\* C24 (as stated): in both UIs, whenever no question turn is in progress,
\* the message list alternates user, ai, user, ai, ... from a user message
\* on: every stored question is followed by exactly one ai entry.
C24_MessagesAlternate ==
    turn.pc \in {"idle", "ended"}
        => /\ Alternates(msgsE)
           /\ Alternates(msgsR)

\* C25 (as stated): with two embedded-UI sessions over one persisted
\* directory, a session whose handle is set, and whose statistics therefore
\* show documents, refers to a directory that exists on disk.
C25_NoStaleSessionHandle ==
    \A s \in Sessions :
        sessions[s].vector_store # "None" => disk.state # "absent"

====
